---- MODULE Spec2Model ----
(***************************************************************************)
(* CMap: a Map-like container with compound keys (src/lib/ckey.ts).        *)
(* A compound key is a JavaScript object; the key generator (asValues by   *)
(* default, or asObjects) linearizes it into a sequence of selectors, and  *)
(* the map is a trie of Nodes walked along that sequence.                  *)
(***************************************************************************)
EXTENDS Integers, Sequences, FiniteSets, TLC

VARIABLES
  values,        \* CMap.values: the root Node of the trie
  size,          \* CMap.size
  keyGenerator,  \* CMap.keyGenerator: "asValues" or "asObjects"
  callers,       \* which objects the callers of the map use as keys: "strings" or "symbols"
  last,          \* the last call on the map: [op, key, value, had, ret]
  stored,        \* history: the linearized keys set and not deleted or cleared since, with their values
  everSet        \* history: the linearized keys ever passed to set

vars == <<values, size, keyGenerator, callers, last, stored, everSet>>

(***************************************************************************)
(* Bounds of the model.                                                    *)
(***************************************************************************)
\* most distinct linearized keys ever passed to set
MaxKeys == 2
\* most properties of an object passed to asObjects or asValues on their own
MaxFields == 3

(***************************************************************************)
(* JavaScript numbers: integers, and the two non-integers the comparator   *)
(* can produce from Rank.OTHER = Infinity.                                 *)
(***************************************************************************)
Infinity == 1000000
NaN == 2000000

\* a - b on JavaScript numbers
JSMinus(a, b) ==
  IF a = NaN \/ b = NaN THEN NaN
  ELSE IF a = Infinity THEN (IF b = Infinity THEN NaN ELSE Infinity)
  ELSE IF a = 0 - Infinity THEN (IF b = 0 - Infinity THEN NaN ELSE 0 - Infinity)
  ELSE IF b = Infinity THEN 0 - Infinity
  ELSE IF b = 0 - Infinity THEN Infinity
  ELSE a - b

(***************************************************************************)
(* Scalars.  Every scalar is a record of the same shape; text is a         *)
(* sequence of UTF-16 code units, id is the identity of a symbol.          *)
(***************************************************************************)
Scalar(type, num, text, id) == [type |-> type, num |-> num, text |-> text, id |-> id]
Undefined == Scalar("undefined", 0, <<>>, 0)
Null == Scalar("null", 0, <<>>, 0)
Num(n) == Scalar("number", n, <<>>, 0)
Str(t) == Scalar("string", 0, t, 0)
\* Symbol(description): id tells two symbols of one description apart
Sym(t, id) == Scalar("symbol", 0, t, id)
\* a value that is not a Scalar (an object)
Obj(id) == Scalar("object", 0, <<>>, id)

\* "Symbol(" and ")" as code units
SymbolOpen == <<83, 121, 109, 98, 111, 108, 40>>
SymbolClose == <<41>>
\* Symbol.prototype.toString
toString(a) == SymbolOpen \o a.text \o SymbolClose

\* s < t on JavaScript strings: lexicographic on code units
RECURSIVE StrLess(_, _)
StrLess(s, t) ==
  IF t = <<>> THEN FALSE
  ELSE IF s = <<>> THEN TRUE
  ELSE IF Head(s) # Head(t) THEN Head(s) < Head(t)
  ELSE StrLess(Tail(s), Tail(t))

RankUNDEFINED == 0
RankNULL == 10
RankNUMBER == 20
RankSTRING == 30
RankSYMBOL == 40
RankOTHER == Infinity

rankScalarType(a) ==
  CASE a.type = "undefined" -> RankUNDEFINED
    [] a.type = "null" -> RankNULL
    [] a.type = "number" -> RankNUMBER
    [] a.type = "string" -> RankSTRING
    [] a.type = "symbol" -> RankSYMBOL
    [] OTHER -> RankOTHER

\* the thrown Error of compareScalars, as a result
Thrown == 3000000

compareScalars(a, b) ==
  LET rank == rankScalarType(a)
      compareRanks == JSMinus(rank, rankScalarType(b))
  IN IF compareRanks # 0 THEN compareRanks
     ELSE CASE rank = RankUNDEFINED \/ rank = RankNULL -> 0
            [] rank = RankNUMBER -> JSMinus(a.num, b.num)
            [] rank = RankSTRING ->
                 IF StrLess(a.text, b.text) THEN -1
                 ELSE IF StrLess(b.text, a.text) THEN 1 ELSE 0
            [] rank = RankSYMBOL ->
                 LET as == toString(a)
                     bs == toString(b)
                 IN IF StrLess(as, bs) THEN -1
                    ELSE IF StrLess(bs, as) THEN 1 ELSE 0
            [] OTHER -> Thrown

(***************************************************************************)
(* Compound keys: the own properties of an object in definition order,     *)
(* each a record [sel, val, enumerable].                                   *)
(***************************************************************************)
Range(s) == {s[i] : i \in 1..Len(s)}

\* filterIt: the elements of it that satisfy pred, in order; pred is given
\* as the set of the values it is true of
RECURSIVE filterIt(_, _)
filterIt(pred, it) ==
  IF it = <<>> THEN <<>>
  ELSE IF Head(it) \in pred THEN <<Head(it)>> \o filterIt(pred, Tail(it))
  ELSE filterIt(pred, Tail(it))

\* the selectors of the properties of obj, in definition order
OwnKeys(obj) == [i \in 1..Len(obj) |-> obj[i].sel]
\* Object.getOwnPropertyNames: the string-named properties
getOwnPropertyNames(obj) ==
  LET isString == {k \in Range(OwnKeys(obj)) : k.type = "string"}
  IN filterIt(isString, OwnKeys(obj))
\* Object.getOwnPropertySymbols: the symbol-named properties
getOwnPropertySymbols(obj) ==
  LET isSymbol == {k \in Range(OwnKeys(obj)) : k.type = "symbol"}
  IN filterIt(isSymbol, OwnKeys(obj))
\* Object.getOwnPropertyDescriptor(obj, key)
getOwnPropertyDescriptor(obj, key) ==
  obj[CHOOSE i \in 1..Len(obj) : obj[i].sel = key]
\* obj[key]: undefined when obj has no such property
Prop(obj, key) ==
  IF \E i \in 1..Len(obj) : obj[i].sel = key
  THEN getOwnPropertyDescriptor(obj, key).val
  ELSE Undefined

\* Array.prototype.sort(compareFn): a stable sort; a result of compareFn
\* that is not a positive number leaves the pair in place
Positive(n) == n # NaN /\ n # Thrown /\ n > 0
RECURSIVE SortInsert(_, _)
SortInsert(s, x) ==
  IF s = <<>> THEN <<x>>
  ELSE IF Positive(compareScalars(s[Len(s)], x))
       THEN SortInsert(SubSeq(s, 1, Len(s) - 1), x) \o <<s[Len(s)]>>
       ELSE s \o <<x>>
RECURSIVE sort(_)
sort(s) ==
  IF s = <<>> THEN <<>>
  ELSE SortInsert(sort(SubSeq(s, 1, Len(s) - 1)), s[Len(s)])

\* asObjects gone wrong: the selectors sorted, as asValues gives them
asObjectsSorted(obj) ==
  LET isEnumerable ==
        {key \in Range(OwnKeys(obj)) : getOwnPropertyDescriptor(obj, key).enumerable}
  IN sort(filterIt(isEnumerable, getOwnPropertyNames(obj))
          \o filterIt(isEnumerable, getOwnPropertySymbols(obj)))

asObjects(obj) ==
  LET isEnumerable ==
        {key \in Range(OwnKeys(obj)) : getOwnPropertyDescriptor(obj, key).enumerable}
  IN filterIt(isEnumerable, getOwnPropertyNames(obj))
     \o filterIt(isEnumerable, getOwnPropertySymbols(obj))

asValues(obj) == sort(asObjects(obj))

(***************************************************************************)
(* JavaScript Map: entries [key, val] in insertion order.                  *)
(***************************************************************************)
MapHas(map, a) == \E i \in 1..Len(map) : map[i].key = a
MapGet(map, a) == map[CHOOSE i \in 1..Len(map) : map[i].key = a].val
\* Map.set gone wrong: a present key is moved to the last place
MapSetLast(map, a, b) ==
  LET keep == {e \in Range(map) : e.key # a}
  IN Append(filterIt(keep, map), [key |-> a, val |-> b])

\* Map.set: a present key keeps its place, a new key goes last
MapSet(map, a, b) ==
  IF MapHas(map, a)
  THEN [i \in 1..Len(map) |-> IF map[i].key = a THEN [key |-> a, val |-> b] ELSE map[i]]
  ELSE Append(map, [key |-> a, val |-> b])
MapDelete(map, a) ==
  LET keep == {e \in Range(map) : e.key # a} IN filterIt(keep, map)

\* getOrMaybeAdd gone wrong: makeEl put at a even if a was there
getOrAlwaysAdd(map, a, makeEl) ==
  [el |-> makeEl,
   map |-> IF \E i \in 1..Len(map) : map[i].key = a
           THEN [i \in 1..Len(map) |-> IF map[i].key = a THEN [key |-> a, val |-> makeEl] ELSE map[i]]
           ELSE Append(map, [key |-> a, val |-> makeEl])]

\* the element of map at a and the map, with makeEl added at a if a was missing
getOrMaybeAdd(map, a, makeEl) ==
  IF MapHas(map, a) THEN [el |-> MapGet(map, a), map |-> map]
  ELSE [el |-> makeEl, map |-> MapSet(map, a, makeEl)]

(***************************************************************************)
(* Trie nodes.  value is a stored value or notPresent; hasNext tells       *)
(* whether the optional field next is there, and next is then              *)
(* Map<selector, Map<field value, Node>>.                                  *)
(***************************************************************************)
\* the sentinel gone wrong: undefined stands for "not present"
notPresentUndefined == "undefined"
\* Symbol('[not present]')
notPresent == "[not present]"
undefined == "undefined"
Node(value, hasNext, next) == [value |-> value, hasNext |-> hasNext, next |-> next]
\* { value: undefined }: "present but undefined" where "not present" is meant
undefinedNode == Node(undefined, FALSE, <<>>)
\* { value: notPresent }
emptyNode == Node(notPresent, FALSE, <<>>)
\* the null that findNode returns
null == Node("null", FALSE, <<>>)

\* the key sequence the map's key generator gives for key
keySeqOf(key) == IF keyGenerator = "asValues" THEN asValues(key) ELSE asObjects(key)

\* the steps [sel, val] of the walk for key: keyElement and key[keyElement]
Steps(key) ==
  LET keySeq == keySeqOf(key)
  IN [i \in 1..Len(keySeq) |-> [sel |-> keySeq[i], val |-> Prop(key, keySeq[i])]]

\* the loop of findNode gone wrong: the node reached so far, not null, when
\* a step is missing
RECURSIVE findFromPartial(_, _)
findFromPartial(node, steps) ==
  IF steps = <<>> THEN node
  ELSE LET st == Head(steps)
       IN IF ~node.hasNext THEN node
          ELSE IF ~MapHas(node.next, st.sel) THEN node
          ELSE IF ~MapHas(MapGet(node.next, st.sel), st.val) THEN node
          ELSE findFromPartial(MapGet(MapGet(node.next, st.sel), st.val), Tail(steps))

\* the loop of findNode, from node on
RECURSIVE findFrom(_, _)
findFrom(node, steps) ==
  IF steps = <<>> THEN node
  ELSE LET st == Head(steps)
       IN IF ~node.hasNext THEN null
          ELSE IF ~MapHas(node.next, st.sel) THEN null
          ELSE IF ~MapHas(MapGet(node.next, st.sel), st.val) THEN null
          ELSE findFrom(MapGet(MapGet(node.next, st.sel), st.val), Tail(steps))

\* findNode gone wrong: the walk in the order of asObjects, whatever the
\* key generator of the map
findNodeInsertionOrder(root, key) ==
  LET keySeq == asObjects(key)
  IN findFrom(root, [i \in 1..Len(keySeq) |-> [sel |-> keySeq[i], val |-> Prop(key, keySeq[i])]])

\* findNode on the map with root node root (this.values)
findNode(root, key) == findFrom(root, Steps(key))

\* the loop of makeNode, from node on: node with the missing parts created
RECURSIVE makeFrom(_, _)
makeFrom(node, steps) ==
  IF steps = <<>> THEN node
  ELSE LET st == Head(steps)
           next == IF ~node.hasNext THEN <<>> ELSE node.next
           forKeyElement == getOrMaybeAdd(next, st.sel, <<>>)
           child == getOrMaybeAdd(forKeyElement.el, st.val, emptyNode)
       IN Node(node.value, TRUE,
               MapSet(forKeyElement.map, st.sel,
                      MapSet(child.map, st.val, makeFrom(child.el, Tail(steps)))))

\* makeNode: the trie with the nodes for key created
makeNode(root, key) == makeFrom(root, Steps(key))

\* findNode gone wrong: the missing parts created, as makeNode does
valuesAfterMake(root, key) == makeFrom(root, Steps(key))

\* the trie after findNode(key): the walk only reads
valuesAfterFind(root, key) == root

\* node.value = value gone wrong: assigned on every node of the walk
RECURSIVE assignAlongPath(_, _, _)
assignAlongPath(node, steps, value) ==
  IF steps = <<>> THEN [node EXCEPT !.value = value]
  ELSE LET st == Head(steps)
           m == MapGet(node.next, st.sel)
       IN [node EXCEPT !.value = value,
                       !.next =
             MapSet(node.next, st.sel,
                    MapSet(m, st.val, assignAlongPath(MapGet(m, st.val), Tail(steps), value)))]

\* node.value = value gone wrong: nothing is assigned
assignNothing(node, steps, value) == node

\* node.value = value on the node that steps lead to from node
RECURSIVE assignValue(_, _, _)
assignValue(node, steps, value) ==
  IF steps = <<>> THEN [node EXCEPT !.value = value]
  ELSE LET st == Head(steps)
           m == MapGet(node.next, st.sel)
       IN [node EXCEPT !.next =
             MapSet(node.next, st.sel,
                    MapSet(m, st.val, assignValue(MapGet(m, st.val), Tail(steps), value)))]

\* get gone wrong: no test for notPresent
getRaw(root, key) ==
  LET node == findNode(root, key)
  IN IF node = null THEN undefined ELSE node.value

\* CMap.get
get(root, key) ==
  LET node == findNode(root, key)
  IN IF node = null \/ node.value = notPresent THEN undefined ELSE node.value

\* set gone wrong: a value that is there is not overwritten
setOnce(root, key, value) ==
  IF get(root, key) # undefined THEN makeNode(root, key)
  ELSE assignValue(makeNode(root, key), Steps(key), value)

\* CMap.set: the trie after set(key, value)
set(root, key, value) == assignValue(makeNode(root, key), Steps(key), value)

(***************************************************************************)
(* The rest of the public contract of CMap: has, delete, clear, size and   *)
(* the iterators.                                                          *)
(***************************************************************************)
\* CMap.has
has(root, key) ==
  LET node == findNode(root, key)
  IN node # null /\ node.value # notPresent

\* size after set(key, value): one more if the value slot of key was absent
sizeAfterSet(key) == IF has(values, key) THEN size ELSE size + 1
\* size after delete(key): one less if key held a value
sizeAfterDelete(key) == IF has(values, key) THEN size - 1 ELSE size

\* a node with no value and no branches
isDead(node) == node.value = notPresent /\ (~node.hasNext \/ node.next = <<>>)

\* delete below node: the value slot at the end of steps cleared, and the
\* entries left dead on the way back up removed
RECURSIVE deleteFrom(_, _)
deleteFrom(node, steps) ==
  IF steps = <<>> THEN [node EXCEPT !.value = notPresent]
  ELSE LET st == Head(steps)
           m == MapGet(node.next, st.sel)
           child == deleteFrom(MapGet(m, st.val), Tail(steps))
           pruned == MapDelete(m, st.val)
       IN IF ~isDead(child)
          THEN [node EXCEPT !.next = MapSet(node.next, st.sel, MapSet(m, st.val, child))]
          ELSE IF pruned # <<>>
          THEN [node EXCEPT !.next = MapSet(node.next, st.sel, pruned)]
          ELSE [node EXCEPT !.next = MapDelete(node.next, st.sel)]

\* CMap.delete: the trie after delete(key)
delete(root, key) ==
  IF has(root, key) THEN deleteFrom(root, Steps(key)) ELSE valuesAfterFind(root, key)

\* CMap.entries: depth first, a node's own value before its branches, the
\* branches in the order of the tables; a key is yielded as its steps
RECURSIVE entriesFrom(_, _)
RECURSIVE entriesOfNext(_, _)
RECURSIVE entriesOfValues(_, _, _)
entriesFrom(node, prefix) ==
  (IF node.value # notPresent THEN <<[key |-> prefix, value |-> node.value]>> ELSE <<>>)
  \o (IF node.hasNext THEN entriesOfNext(node.next, prefix) ELSE <<>>)
entriesOfNext(next, prefix) ==
  IF next = <<>> THEN <<>>
  ELSE entriesOfValues(Head(next).key, Head(next).val, prefix)
       \o entriesOfNext(Tail(next), prefix)
entriesOfValues(sel, m, prefix) ==
  IF m = <<>> THEN <<>>
  ELSE entriesFrom(Head(m).val, Append(prefix, [sel |-> sel, val |-> Head(m).key]))
       \o entriesOfValues(sel, Tail(m), prefix)

entries(root) == entriesFrom(root, <<>>)
\* CMap.keys
keys(root) == [i \in 1..Len(entries(root)) |-> entries(root)[i].key]

(***************************************************************************)
(* The keys and values the map is called with.                             *)
(***************************************************************************)
\* the selectors 'a' and 'b', and two symbols Symbol('s')
selA == Str(<<97>>)
selB == Str(<<98>>)
symS == Sym(<<115>>, 1)
symT == Sym(<<115>>, 2)
Field(sel, val) == [sel |-> sel, val |-> val, enumerable |-> TRUE]
\* the objects with properties among fields, no selector twice
ObjectsOf(fields) ==
  { k \in UNION { [1..n -> fields] : n \in 0..Cardinality(fields) } :
      \A i, j \in 1..Len(k) : i # j => k[i].sel # k[j].sel }
\* {}, { a: 1 }, { a: 1, b: 2 }, { b: 2, a: 1 }, { a: 1, b: 3 }, ...
StringObjects ==
  ObjectsOf({Field(selA, Num(1)), Field(selB, Num(2)), Field(selB, Num(3))})
\* {}, { a: 1 }, { [s]: 1 }, { [s]: 1, a: 1 }, { [s]: 1, [t]: 1 }, { [t]: 1, [s]: 1 }, ...
SymbolObjects ==
  ObjectsOf({Field(selA, Num(1)), Field(symS, Num(1))})
    \cup ObjectsOf({Field(symS, Num(1)), Field(symT, Num(1))})
\* every object a caller may use
Keys == StringObjects \cup SymbolObjects
\* the objects the callers of this map use
objects == IF callers = "strings" THEN StringObjects ELSE SymbolObjects
\* the values stored
Values == {"x", "y", undefined}

(***************************************************************************)
(* The map as a state machine: one action per call.  last.key and          *)
(* last.value are the arguments of a call that changed the map (<<>> and   *)
(* undefined otherwise), last.had tells whether the key of the call held a *)
(* value before the call, and last.ret is what the call returned.          *)
(***************************************************************************)
Call(op, key, value, had, ret) ==
  [op |-> op, key |-> key, value |-> value, had |-> had, ret |-> ret]
Bool(b) == IF b THEN "true" ELSE "false"

InitWith(generator) ==
  /\ values = emptyNode
  /\ size = 0
  /\ keyGenerator = generator
  /\ callers \in {"strings", "symbols"}
  /\ last = Call("new", <<>>, undefined, FALSE, "this")
  /\ stored = {}
  /\ everSet = {}

\* new CMap()
Init == InitWith("asValues")
\* new CMap(asObjects)
InitObjects == InitWith("asObjects")

Set(key, value) ==
  LET steps == Steps(key)
      had == has(values, key)
  IN /\ steps \in everSet \/ Cardinality(everSet) < MaxKeys
     /\ values' = set(values, key, value)
     /\ size' = sizeAfterSet(key)
     /\ last' = Call("set", key, value, had, "this")
     /\ stored' = {e \in stored : e.key # steps} \cup {[key |-> steps, value |-> value]}
     /\ everSet' = everSet \cup {steps}
     /\ UNCHANGED <<keyGenerator, callers>>

Get(key) ==
  /\ values' = valuesAfterFind(values, key)
  /\ last' = Call("get", <<>>, undefined, has(values, key), get(values, key))
  /\ UNCHANGED <<size, keyGenerator, callers, stored, everSet>>

Has(key) ==
  LET had == has(values, key)
  IN /\ values' = valuesAfterFind(values, key)
     /\ last' = Call("has", <<>>, undefined, had, Bool(had))
     /\ UNCHANGED <<size, keyGenerator, callers, stored, everSet>>

Delete(key) ==
  LET steps == Steps(key)
      had == has(values, key)
  IN /\ values' = delete(values, key)
     /\ size' = sizeAfterDelete(key)
     /\ last' = Call("delete", IF had THEN key ELSE <<>>, undefined, had, Bool(had))
     /\ stored' = {e \in stored : e.key # steps}
     /\ UNCHANGED <<keyGenerator, callers, everSet>>

Clear ==
  /\ values' = emptyNode
  /\ size' = 0
  /\ last' = Call("clear", <<>>, undefined, FALSE, undefined)
  /\ stored' = {}
  /\ UNCHANGED <<keyGenerator, callers, everSet>>

Entries ==
  /\ last' = Call("entries", <<>>, undefined, FALSE, "iterator")
  /\ UNCHANGED <<values, size, keyGenerator, callers, stored, everSet>>

Next ==
  \/ \E key \in objects, value \in Values : Set(key, value)
  \/ \E key \in objects : Get(key)
  \/ \E key \in objects : Has(key)
  \/ \E key \in objects : Delete(key)
  \/ Clear
  \/ Entries

Spec == Init /\ [][Next]_vars
SpecObjects == InitObjects /\ [][Next]_vars

(***************************************************************************)
(* The exported functions compareScalars, asObjects and asValues, called   *)
(* on their own: last.key holds the arguments and last.ret the result.     *)
(***************************************************************************)
\* a property that is not enumerable
Hidden(sel, val) == [sel |-> sel, val |-> val, enumerable |-> FALSE]
\* the selector 'c' and Symbol('r')
selC == Str(<<99>>)
symR == Sym(<<114>>, 3)
\* the values compareScalars is called with: the scalars, NaN and the
\* infinities among the numbers, and two objects, which are no scalars
Scalars ==
  {Undefined, Null, Num(1), Num(2), Num(Infinity), Num(0 - Infinity), Num(NaN),
   Str(<<>>), selA, selB, Str(<<97, 97>>), symS, symT, symR}
NonScalars == {Obj(1), Obj(2)}
\* the objects the key generators are called with
GeneratorObjects ==
  LET fields == {Field(selA, Num(1)), Field(selB, Num(2)), Hidden(selC, Num(3)),
                 Field(symS, Num(1)), Field(symT, Num(1)), Field(symR, Num(1))}
  IN {obj \in ObjectsOf(fields) : Len(obj) <= MaxFields}

CompareScalars(a, b) ==
  /\ last' = Call("compareScalars", <<a, b>>, undefined, FALSE, compareScalars(a, b))
  /\ UNCHANGED <<values, size, keyGenerator, callers, stored, everSet>>

AsObjects(obj) ==
  /\ last' = Call("asObjects", obj, undefined, FALSE, asObjects(obj))
  /\ UNCHANGED <<values, size, keyGenerator, callers, stored, everSet>>

AsValues(obj) ==
  /\ last' = Call("asValues", obj, undefined, FALSE, asValues(obj))
  /\ UNCHANGED <<values, size, keyGenerator, callers, stored, everSet>>

NextFunctions ==
  \/ \E a, b \in Scalars \cup NonScalars : CompareScalars(a, b)
  \/ \E obj \in GeneratorObjects : AsObjects(obj)
  \/ \E obj \in GeneratorObjects : AsValues(obj)

InitFunctions == Init /\ callers = "symbols"
SpecFunctions == InitFunctions /\ [][NextFunctions]_vars

(***************************************************************************)
(* Vocabulary of the properties.                                           *)
(***************************************************************************)
\* the linearized keys that hold a value, by the history of calls
StoredKeys == {e.key : e \in stored}
\* the value a linearized key holds by the history of calls; undefined if none
StoredValue(steps) ==
  IF steps \in StoredKeys THEN (CHOOSE e \in stored : e.key = steps).value ELSE undefined
\* p is a strict prefix of s
IsPrefix(p, s) == Len(p) < Len(s) /\ SubSeq(s, 1, Len(p)) = p
\* k1 and k2 have the same (selector, value) pairs
SamePairs(k1, k2) == Range(k1) = Range(k2)

(***************************************************************************)
(* Properties.                                                             *)
(***************************************************************************)
\* C1: under the default strategy, after set(k1, v) every key k2 with the
\* same (selector, value) pairs as k1, in whatever order its fields were
\* defined, gets v.
C1_FieldOrderIndependent ==
  (keyGenerator = "asValues" /\ last.op = "set") =>
    \A k2 \in objects : SamePairs(last.key, k2) => get(values, k2) = last.value

\* C2: get(k) is the value that k's own linearized sequence was set to and
\* still holds, and absent otherwise: a strict prefix of a stored key, an
\* extension of one and a key differing in one field value are absent, and
\* stored keys sharing a prefix each return their own value.
C2_PrefixIndependence ==
  \A k \in objects : get(values, k) = StoredValue(Steps(k))

\* two stored keys with different values share a prefix that is absent
C2_Witness ==
  \E k1, k2, p \in objects :
    /\ Steps(p) # <<>>
    /\ IsPrefix(Steps(p), Steps(k1)) /\ IsPrefix(Steps(p), Steps(k2))
    /\ Steps(k1) # Steps(k2)
    /\ get(values, k1) = "x" /\ get(values, k2) = "y"
    /\ get(values, p) = undefined /\ Steps(p) \notin StoredKeys

\* C3: size is the number of distinct linearized keys that hold a value
\* (that satisfy has); it is never negative and never more than the number
\* of distinct linearized keys passed to set.
C3_SizeConsistency ==
  LET present == {Steps(k) : k \in {o \in objects : has(values, o)}}
  IN /\ size = Cardinality(present)
     /\ size >= 0
     /\ size <= Cardinality(everSet)

\* a key was deleted: one key is left of the two that were set
C3_Witness ==
  /\ last.op = "delete" /\ last.ret = "true"
  /\ size = 1 /\ Cardinality(everSet) = 2

\* C4: a set of a key that holds a value leaves size as it was, and get
\* of the key then returns the value of this last set.
C4_Overwrite ==
  [][(last'.op = "set" /\ last'.had) =>
       (size' = size /\ get(values', last'.key) = last'.value)]_vars

\* a key that held a value was set to "y"
C4_Witness ==
  /\ last.op = "set" /\ last.had
  /\ last.value = "y" /\ get(values, last.key) = "y"

\* C5: delete of a key that holds a value returns true, takes one off
\* size and leaves the key absent; every key with another linearized
\* sequence gets what it got before, whether it shares a prefix with the
\* deleted key or extends it.  (The key held a value exactly when the
\* delete takes it out of the history.)
C5_DeleteExactly ==
  [][(last'.op = "delete" /\ stored' # stored) =>
       /\ last'.had
       /\ last'.ret = "true"
       /\ size' = size - 1
       /\ get(values', last'.key) = undefined
       /\ ~has(values', last'.key)
       /\ \A k2 \in objects :
            Steps(k2) # Steps(last'.key) =>
              /\ get(values', k2) = get(values, k2)
              /\ has(values', k2) = has(values, k2)]_vars

\* an internal node was deleted: a key that extends the deleted key still
\* holds its value
C5_Witness ==
  /\ last.op = "delete" /\ last.ret = "true"
  /\ Steps(last.key) # <<>>
  /\ \E k2 \in objects :
       IsPrefix(Steps(last.key), Steps(k2)) /\ get(values, k2) = "x"

\* C6: delete of a key that holds no value (never set, deleted, a prefix
\* of stored keys, or a stored key with one more field) returns false and
\* leaves size and what every key gets as they were.  (The key held no
\* value exactly when the delete leaves the history as it was.)
C6_DeleteAbsent ==
  [][(last'.op = "delete" /\ stored' = stored) =>
       /\ last'.ret = "false"
       /\ size' = size
       /\ \A k2 \in objects : get(values', k2) = get(values, k2)]_vars

\* delete returned false while a key was stored
C6_Witness ==
  /\ last.op = "delete" /\ last.ret = "false"
  /\ size = 1 /\ stored # {}

\* C7: has(k) is true exactly when k holds a value: true for every stored
\* key in whatever order its fields were defined (default strategy), false
\* for a prefix of a stored key and for a key differing in one field value.
C7_HasIffPresent ==
  /\ \A k \in objects : has(values, k) <=> (findNode(values, k) # null /\ findNode(values, k).value # notPresent)
  /\ \A k \in objects : has(values, k) => Steps(k) \in StoredKeys
  /\ keyGenerator = "asValues" =>
       \A k1, k2 \in objects :
         (Steps(k1) \in StoredKeys /\ SamePairs(k1, k2)) => has(values, k2)

\* C8: after clear() the root is a fresh empty node, size is 0 and every
\* key is absent.
C8_Clear ==
  last.op = "clear" =>
    /\ values = emptyNode
    /\ size = 0
    /\ \A k \in Keys : ~has(values, k) /\ get(values, k) = undefined

\* the map was cleared after keys had been set
C8_Witness == last.op = "clear" /\ Cardinality(everSet) = 2

\* the fields of k with a selector of the given type, in definition order
FieldsOfType(k, type) ==
  LET ofType == {f \in Range(k) : f.sel.type = type} IN filterIt(ofType, k)

\* C9: under asObjects two keys are the same key exactly when they have
\* the same fields in the same order (strings before symbols): keys with
\* the same pairs in another order are distinct entries with values of
\* their own, and so is a prefix of them.
C9_InsertionOrderKeys ==
  keyGenerator = "asObjects" =>
    \A k1, k2 \in objects :
      /\ (Steps(k1) = Steps(k2)) <=>
           /\ FieldsOfType(k1, "string") = FieldsOfType(k2, "string")
           /\ FieldsOfType(k1, "symbol") = FieldsOfType(k2, "symbol")
      /\ Steps(k1) = Steps(k2) => get(values, k1) = get(values, k2)
      /\ get(values, k1) = StoredValue(Steps(k1))

\* { a: 1, b: 2 } and { b: 2, a: 1 } hold different values
C9_Witness ==
  /\ keyGenerator = "asObjects"
  /\ \E k1, k2 \in objects :
       /\ SamePairs(k1, k2) /\ k1 # k2
       /\ get(values, k1) = "x" /\ get(values, k2) = "y"

\* the first n steps of a yielded key
Upto(key, n) == SubSeq(key, 1, n)

\* every stored key is yielded once, with its value, and nothing else is;
\* a key comes before the keys beneath it, and the keys beneath a node come
\* together (depth first)
PreOrder ==
  LET es == entries(values)
  IN /\ Len(es) = Cardinality(stored)
     /\ \A e \in stored : \E i \in 1..Len(es) : es[i] = e
     /\ \A i, j \in 1..Len(es) : IsPrefix(es[i].key, es[j].key) => i < j
     /\ \A i, j, l \in 1..Len(es) :
          (i < j /\ j < l) =>
            \A n \in 0..Len(es[i].key) :
              (Len(es[l].key) >= n /\ Upto(es[i].key, n) = Upto(es[l].key, n))
                => (Len(es[j].key) >= n /\ Upto(es[j].key, n) = Upto(es[i].key, n))

sign(n) == IF n = NaN THEN NaN ELSE IF n > 0 THEN 1 ELSE IF n < 0 THEN -1 ELSE 0
NumEq(m, n) == m # NaN /\ n # NaN /\ m = n
\* n is "less or equal": a number not above 0
NotAbove(n) == n # NaN /\ n <= 0
\* a and b are scalars
BothScalars(a, b) == a \in Scalars /\ b \in Scalars

\* C11: on scalars compareScalars is a total order: the sign of
\* compare(a, b) is the opposite of the sign of compare(b, a), a <= b and
\* b <= c give a <= c, and scalars of different rank are ordered by rank,
\* undefined < null < number < string < symbol.
C11_TotalOrder ==
  (last.op = "compareScalars" /\ BothScalars(last.key[1], last.key[2])) =>
    LET a == last.key[1]
        b == last.key[2]
    IN /\ NumEq(sign(last.ret), 0 - sign(compareScalars(b, a)))
       /\ \A c \in Scalars :
            (NotAbove(last.ret) /\ NotAbove(compareScalars(b, c)))
              => NotAbove(compareScalars(a, c))
       /\ rankScalarType(a) < rankScalarType(b) => last.ret < 0
       /\ rankScalarType(a) > rankScalarType(b) => last.ret > 0
       /\ RankUNDEFINED < RankNULL /\ RankNULL < RankNUMBER
       /\ RankNUMBER < RankSTRING /\ RankSTRING < RankSYMBOL

\* C12: compareScalars on a value that is not a scalar throws.
C12_NonScalarValue ==
  (last.op = "compareScalars"
     /\ (rankScalarType(last.key[1]) = RankOTHER \/ rankScalarType(last.key[2]) = RankOTHER))
    => last.ret = Thrown

\* s is in ascending compareScalars order
Ascending(s) ==
  \A i, j \in 1..Len(s) : i < j => NotAbove(compareScalars(s[i], s[j]))
\* s is a permutation of t, for sequences without repetitions
Permutation(s, t) == Len(s) = Len(t) /\ Range(s) = Range(t)

\* C15: asValues(obj) is a permutation of asObjects(obj), nothing added or
\* dropped, in ascending compareScalars order, strings before symbols, and
\* it is the same for every object with the same enumerable selectors, in
\* whatever order they were defined.
C15_CanonicalOrder ==
  last.op = "asValues" =>
    /\ Permutation(last.ret, asObjects(last.key))
    /\ Ascending(last.ret)
    /\ \A i, j \in 1..Len(last.ret) :
         (last.ret[i].type = "string" /\ last.ret[j].type = "symbol") => i < j
    /\ \A obj \in GeneratorObjects :
         Range(asObjects(obj)) = Range(asObjects(last.key)) => asValues(obj) = last.ret

\* the nodes below node, the node itself left out
RECURSIVE NodesBelow(_)
NodesBelow(node) ==
  IF ~node.hasNext THEN {}
  ELSE UNION { UNION { {e.val} \cup NodesBelow(e.val) : e \in Range(t.val) }
               : t \in Range(node.next) }
\* the branch tables of the trie: of the root and of every node below it
BranchTables(root) ==
  {n.next : n \in {m \in {root} \cup NodesBelow(root) : m.hasNext}}
\* node has no branches
NoBranches(node) == ~node.hasNext \/ node.next = <<>>

\* C13: after any calls of set and delete no node but the root has both no
\* value and no branches, and no branch table maps a selector to an empty
\* table of values; once every key that was stored is deleted, the root has
\* no branches.
C13_Pruned ==
  /\ \A node \in NodesBelow(values) : ~(node.value = notPresent /\ NoBranches(node))
  /\ \A next \in BranchTables(values) : \A t \in Range(next) : t.val # <<>>
  /\ stored = {} => NoBranches(values)

\* the last of two keys was deleted, one of them with two fields
C13_Witness ==
  /\ last.op = "delete" /\ last.ret = "true"
  /\ Cardinality(everSet) = 2 /\ stored = {}
  /\ \E steps \in everSet : Len(steps) = 2
  /\ values.hasNext

\* C14: findNode creates no nodes: get, has and a delete of a key that
\* holds no value leave the whole trie (every node, branch table and value
\* slot) as it was, whether the key is found or not.
C14_FindCreatesNothing ==
  [][(last'.op \in {"get", "has"} \/ (last'.op = "delete" /\ last'.ret = "false"))
       => values' = values]_vars

\* has found no value for a key while two keys were stored
C14_Witness ==
  /\ last.op = "has" /\ last.ret = "false"
  /\ Cardinality(stored) = 2

\* the entries of the trie for the linearized keys other than steps
EntriesBut(root, steps) ==
  LET others == {e \in Range(entries(root)) : e.key # steps}
  IN filterIt(others, entries(root))

\* C16: set(k, v) changes the value slot of k and nothing else: the nodes
\* it creates hold no value, so every value the trie held for another
\* linearized key is still there, no other key gains one, and every key
\* with another linearized sequence (a prefix of k too) gets what it got
\* before.
C16_SetFrame ==
  [][last'.op = "set" =>
       /\ findNode(values', last'.key).value = last'.value
       /\ EntriesBut(values', Steps(last'.key)) = EntriesBut(values, Steps(last'.key))
       /\ \A k2 \in objects :
            Steps(k2) # Steps(last'.key) =>
              /\ get(values', k2) = get(values, k2)
              /\ has(values', k2) = has(values, k2)]_vars

\* a key of two fields was set while another key was stored, and a prefix
\* of it holds no value
C16_Witness ==
  /\ last.op = "set" /\ ~last.had
  /\ Len(Steps(last.key)) = 2 /\ size = 2
  /\ \E p \in objects :
       /\ Steps(p) # <<>> /\ IsPrefix(Steps(p), Steps(last.key))
       /\ ~has(values, p) /\ get(values, p) = undefined

\* C17: a key set to undefined holds a value: its value slot is undefined
\* and not the notPresent sentinel, and it counts as stored (has is true,
\* size counts it); yet get returns undefined for it, as it does for a key
\* that was never set.
C17_PresentUndefined ==
  (last.op = "set" /\ last.value = undefined) =>
    /\ findNode(values, last.key) # null
    /\ findNode(values, last.key).value = undefined
    /\ findNode(values, last.key).value # notPresent
    /\ has(values, last.key)
    /\ Steps(last.key) \in StoredKeys /\ size = Cardinality(StoredKeys)
    /\ get(values, last.key) = undefined
    /\ \A k2 \in objects :
         Steps(k2) \notin everSet =>
           (~has(values, k2) /\ get(values, k2) = get(values, last.key))

\* a second key was set to undefined, and some key was never set
C17_Witness ==
  /\ last.op = "set" /\ last.value = undefined /\ ~last.had
  /\ size = 2
  /\ \E k2 \in objects : Steps(k2) \notin everSet /\ get(values, k2) = undefined

====
